---------------------------- MODULE Spec2Model ----------------------------
(***************************************************************************)
(* A model of scripts/pngs_to_ico.py: the tag parser and grouper           *)
(* (SIZE_RE, group_pngs), the container synthesizer                        *)
(* (create_ico_for_group) and the driver (main).                           *)
(*                                                                         *)
(* Characters are their code points, names are sequences of code points,   *)
(* file contents are sequences of bytes (0..255).  The output directory    *)
(* is the function fs from group keys to the file <key>.ico, or NoFile.    *)
(***************************************************************************)
EXTENDS Integers, Sequences, FiniteSets

VARIABLES
    dirpath,    \* main: the resolved scan root, as its path components
    isDir,      \* main: dirpath.is_dir()
    tree,       \* the PNG files below the scan root
    groups,     \* main: the groups of group_pngs, in dict (insertion) order
    gi,         \* main: index of the group being processed (0: none yet)
    overwrite,  \* args.overwrite
    outDir,     \* state of out_dir: "absent", "dir" or "blocked"
    fault,      \* environment: per output path, "ok", "open" or "write"
    fs,         \* files of out_dir: group key -> the file <key>.ico or NoFile
    fs0,        \* fs as it was when the run started (history)
    pc,         \* control position
    base,       \* create_ico_for_group: parameter base
    items,      \* create_ico_for_group: parameter items
    idx,        \* create_ico_for_group: position of the loop over items
    entries,    \* create_ico_for_group: local entries
    opened,     \* number of Image.open calls made by the current call
    log,        \* the diagnostics printed so far
    stem,       \* ParseSpec: the stem handed to SIZE_RE
    parsed      \* ParseSpec: the outcome of SIZE_RE.match and int()

vars == <<dirpath, isDir, tree, groups, gi, overwrite, outDir, fault, fs, fs0, pc,
          base, items, idx, entries, opened, log, stem, parsed>>

---------------------------------------------------------------------------
(* Bounds *)

\* longest candidate list handed to one create_ico_for_group call
MaxItems == 3
\* longest stem handed to SIZE_RE
MaxStem == 3
\* most files in a scanned tree
MaxFiles == 3

---------------------------------------------------------------------------
(* Sequences and bytes *)

\* a path of out_dir: no file there, or a file with its bytes
NoFile == [exists |-> FALSE, bytes |-> <<>>]
File(bytes) == [exists |-> TRUE, bytes |-> bytes]

RECURSIVE Concat(_)
Concat(ss) == IF ss = <<>> THEN <<>> ELSE Head(ss) \o Concat(Tail(ss))

\* struct.pack('<H', n) for n in 0..65535 (beyond, struct.pack raises):
\* two bytes, little-endian
PackU16(n) == <<n % 256, (n \div 256) % 256>>

\* struct.pack('<I', n) for n below 2^32 (beyond, struct.pack raises):
\* four bytes, little-endian
PackU32(n) ==
    <<n % 256, (n \div 256) % 256, (n \div 65536) % 256, (n \div 16777216) % 256>>

\* struct.pack('<B', n), for n in 0..255
PackU8(n) == <<n>>


---------------------------------------------------------------------------
(* SIZE_RE = ^(.*?)(?:[_@\-]?)(\d+)$ and the parsing of a stem *)

\* \d, on the characters of the model (ASCII digits)
IsDigit(ch) == ch \in 48..57

\* [_@\-]
IsSep(ch) == ch \in {95, 64, 45}

\* `.` matches every character but the newline
IsDot(ch) == ch # 10

\* `$` matches after position k of st: at the end, or before a final newline
AtEnd(st, k) == k = Len(st) \/ (k = Len(st) - 1 /\ st[Len(st)] = 10)

\* the longest run of digits of st that starts at position j
RECURSIVE DigitRun(_, _)
DigitRun(st, j) ==
    IF j <= Len(st) /\ IsDigit(st[j]) THEN <<st[j]>> \o DigitRun(st, j + 1)
    ELSE <<>>

NoMatch == [matched |-> FALSE, group1 |-> <<>>, group2 |-> <<>>]

\* (\d+)$ tried at position j: \d+ is greedy, and a shorter run is followed
\* by a digit, where `$` cannot match, so only the longest run can match
DigitsToEnd(st, j) ==
    LET run == DigitRun(st, j)
    IN  Len(run) >= 1 /\ AtEnd(st, j + Len(run) - 1)

\* (?:[_@\-]?)(\d+)$ tried after a group 1 of length i: the separator is
\* taken when there is one (the `?` is greedy), and given back otherwise
MatchAfter(st, i) ==
    IF i + 1 <= Len(st) /\ IsSep(st[i + 1]) /\ DigitsToEnd(st, i + 2)
    THEN [matched |-> TRUE, group1 |-> SubSeq(st, 1, i), group2 |-> DigitRun(st, i + 2)]
    ELSE IF DigitsToEnd(st, i + 1)
    THEN [matched |-> TRUE, group1 |-> SubSeq(st, 1, i), group2 |-> DigitRun(st, i + 1)]
    ELSE NoMatch

\* (.*?) is lazy: group 1 grows by one character, never a newline, each time
\* the rest fails to match
RECURSIVE MatchFrom(_, _)
MatchFrom(st, i) ==
    IF MatchAfter(st, i).matched THEN MatchAfter(st, i)
    ELSE IF i < Len(st) /\ IsDot(st[i + 1]) THEN MatchFrom(st, i + 1)
    ELSE NoMatch

\* SIZE_RE.match(stem)
SizeReMatch(st) == MatchFrom(st, 0)

\* int(digits) for a run of ASCII digits
RECURSIVE IntOf(_)
IntOf(ds) ==
    IF ds = <<>> THEN 0
    ELSE 10 * IntOf(SubSeq(ds, 1, Len(ds) - 1)) + (ds[Len(ds)] - 48)

\* Lines 54-62 of group_pngs on one stem: no candidate, or the size of one
ParseStem(st) ==
    LET m == SizeReMatch(st)
    IN  IF ~m.matched THEN [kind |-> "skipped", size |-> 0]
        ELSE [kind |-> "candidate", size |-> IntOf(m.group2)]

---------------------------------------------------------------------------
(* group_pngs *)

\* ".png"
PngSuffix == <<46, 112, 110, 103>>

\* p.name
FileName(f) == f.stem \o PngSuffix

\* the parts of a path below the scan root; every path of one scan starts
\* with the parts of the scan root, so these decide the order
Parts(f) == Append(f.dir, FileName(f))

\* s < t for two strings, by code point
RECURSIVE StrLess(_, _)
StrLess(s, t) ==
    IF t = <<>> THEN FALSE
    ELSE IF s = <<>> THEN TRUE
    ELSE IF Head(s) # Head(t) THEN Head(s) < Head(t)
    ELSE StrLess(Tail(s), Tail(t))

\* p < q for two paths: their parts compared as lists of strings
RECURSIVE PartsLess(_, _)
PartsLess(ps, qs) ==
    IF qs = <<>> THEN FALSE
    ELSE IF ps = <<>> THEN TRUE
    ELSE IF Head(ps) # Head(qs) THEN StrLess(Head(ps), Head(qs))
    ELSE PartsLess(Tail(ps), Tail(qs))

PathLess(f, g) == PartsLess(Parts(f), Parts(g))

\* sorted(dirpath.rglob('*.png')): the paths are distinct, so the order is
\* total and the least of a non-empty set is unique
RECURSIVE SortedPaths(_)
SortedPaths(files) ==
    IF files = {} THEN <<>>
    ELSE LET least == CHOOSE f \in files : \A g \in files \ {f} : PathLess(f, g)
         IN  <<least>> \o SortedPaths(files \ {least})

\* p.parent.name: the last part of the directory of the file, the scan root
\* included; empty for the filesystem root
ParentName(root, f) ==
    LET parent == root \o f.dir
    IN  IF parent = <<>> THEN <<>> ELSE parent[Len(parent)]

\* "."
Dot == <<46>>

\* FolderName giving "." to every file directly in the scan root
FolderNameBelowRoot(root, f) ==
    IF f.dir = <<>> THEN Dot ELSE f.dir[Len(f.dir)]

\* folder_name = p.parent.name or '.'
FolderName(root, f) ==
    IF ParentName(root, f) = <<>> THEN Dot ELSE ParentName(root, f)

\* groups[folder_name].append((p, size)) on the groups gs, kept in the order
\* their keys were first used
AppendToGroup(gs, key, cand) ==
    IF \E k \in 1..Len(gs) : gs[k].base = key
    THEN [k \in 1..Len(gs) |->
            IF gs[k].base = key
            THEN [base |-> key, items |-> Append(gs[k].items, cand)]
            ELSE gs[k]]
    ELSE Append(gs, [base |-> key, items |-> <<cand>>])

\* the loop of lines 51-64 over the remaining paths ps
RECURSIVE GroupLoop(_, _, _)
GroupLoop(root, ps, gs) ==
    IF ps = <<>> THEN gs
    ELSE LET f == Head(ps)
             r == ParseStem(f.stem)
         IN  IF ~f.isfile \/ r.kind # "candidate"
             THEN GroupLoop(root, Tail(ps), gs)
             ELSE GroupLoop(root, Tail(ps),
                            AppendToGroup(gs, FolderName(root, f),
                                          [p |-> f, s |-> r.size]))

\* group_pngs(dirpath) on the files found below dirpath
group_pngs(root, files) == GroupLoop(root, SortedPaths(files), <<>>)

---------------------------------------------------------------------------
(* create_ico_for_group: validation of one candidate *)

\* Outcome without the comparison of the probed width to the declared size
OutcomeNoSizeCheck(c) ==
    IF c.s = 0 THEN "falsy"
    ELSE IF ~c.p.readable THEN "unreadable"
    ELSE IF c.p.w # c.p.h THEN "not_square"
    ELSE "ok"

\* What lines 88-102 do with candidate c = (p, s): "falsy" is `if not s`,
\* "unreadable" is the except branch (Image.open raised), "ok" appends.
\* Pillow never reports a width or height below 1, so p.w, p.h >= 1.
Outcome(c) ==
    IF c.s = 0 THEN "falsy"
    ELSE IF ~c.p.readable THEN "unreadable"
    ELSE IF c.p.w # c.p.h THEN "not_square"
    ELSE IF c.p.w # c.s THEN "mismatch"
    ELSE "ok"

\* the tuple (s, data) appended at line 100
Entry(c) == [size |-> c.s, data |-> c.p.data]

---------------------------------------------------------------------------
(* create_ico_for_group: sorting and serialization *)

\* InsertAfterEqual placing e before the entries of its size (an unstable sort)
RECURSIVE InsertBeforeEqual(_, _)
InsertBeforeEqual(e, s) ==
    IF s = <<>> THEN <<e>>
    ELSE IF e.size <= Head(s).size THEN <<e>> \o s
    ELSE <<Head(s)>> \o InsertBeforeEqual(e, Tail(s))

RECURSIVE InsertAfterEqual(_, _)
InsertAfterEqual(e, s) ==
    IF s = <<>> THEN <<e>>
    ELSE IF e.size < Head(s).size THEN <<e>> \o s
    ELSE <<Head(s)>> \o InsertAfterEqual(e, Tail(s))

RECURSIVE SortFrom(_, _)
SortFrom(es, acc) ==
    IF es = <<>> THEN acc
    ELSE SortFrom(Tail(es), InsertAfterEqual(Head(es), acc))

\* sorted(entries, key=lambda x: x[0]): ascending by size, stable
SortedBySize(es) == SortFrom(es, <<>>)

\* struct.pack('<HHH', 0, 1, count)
Header(count) == PackU16(0) \o PackU16(1) \o PackU16(count)

\* w_byte, h_byte of one entry
WByte(size) == IF size >= 256 THEN 0 ELSE size

\* struct.pack('<BBBBHHII', w_byte, h_byte, color_count, reserved, planes,
\*             bit_count, data_len, offset)
DirRecord(size, data_len, offset) ==
    PackU8(WByte(size)) \o PackU8(WByte(size)) \o PackU8(0) \o PackU8(0)
        \o PackU16(0) \o PackU16(32) \o PackU32(data_len) \o PackU32(offset)

\* FirstOffset for a directory of one record, whatever count is
FirstOffsetOneRecord(count) == 6 + 16

\* the offset before the loop
FirstOffset(count) == 6 + 16 * count

\* the loop of lines 120-131 over the remaining entries es
RECURSIVE BuildLoop(_, _, _, _)
BuildLoop(es, dir_entries, image_data, offset) ==
    IF es = <<>> THEN [dir_entries |-> dir_entries, image_data |-> image_data]
    ELSE LET size == Head(es).size
             data == Head(es).data
             data_len == Len(data)
         IN  BuildLoop(Tail(es),
                       dir_entries \o DirRecord(size, data_len, offset),
                       image_data \o data,
                       offset + data_len)

\* the three f.write calls, in order
WriteOrder(header, dir_entries, image_data) ==
    <<header, dir_entries, image_data>>

\* the bytes written for the sorted entries es
IcoBytes(es) ==
    LET count == Len(es)
        built == BuildLoop(es, <<>>, <<>>, FirstOffset(count))
    IN  Concat(WriteOrder(Header(count), built.dir_entries, built.image_data))

\* OpenWb opening for append: the old bytes stay
OpenAppend(old) == old.bytes

\* ico_path.open('wb') on a path holding old: the bytes the file starts
\* with (it is created empty or truncated)
OpenWb(old) == <<>>


---------------------------------------------------------------------------
(* create_ico_for_group: the steps of one call *)

Say(kind, who) == Append(log, [kind |-> kind, who |-> who])

\* Exists looking at a path that is never there
ExistsWrongPath(b) == FALSE

\* ico_path.exists()
Exists(b) == fs[b].exists

\* Line 79: out_dir.mkdir(parents=True, exist_ok=True) raises when out_dir
\* cannot be made a directory; nothing catches it.
MkdirRaises ==
    /\ pc = "call"
    /\ outDir = "blocked"
    /\ pc' = "raised"
    /\ UNCHANGED <<dirpath, isDir, tree, groups, gi, overwrite, outDir, fault, fs, fs0,
                   base, items, idx, entries, opened, log, stem, parsed>>

\* Lines 79-83: the output exists and overwrite is off.
SkipExisting ==
    /\ pc = "call"
    /\ outDir # "blocked"
    /\ Exists(base) /\ ~overwrite
    /\ outDir' = "dir"
    /\ log' = Say("exists_skip", base)
    /\ opened' = 0
    /\ pc' = "returned"
    /\ UNCHANGED <<dirpath, isDir, tree, groups, gi, overwrite, fault, fs, fs0,
                   base, items, idx, entries, stem, parsed>>

\* Lines 79-86: otherwise the loop over items starts with no entries.
StartValidation ==
    /\ pc = "call"
    /\ outDir # "blocked"
    /\ ~(Exists(base) /\ ~overwrite)
    /\ outDir' = "dir"
    /\ entries' = <<>>
    /\ idx' = 1
    /\ opened' = 0
    /\ pc' = "validate"
    /\ UNCHANGED <<dirpath, isDir, tree, groups, gi, overwrite, fault, fs, fs0,
                   base, items, log, stem, parsed>>

\* Lines 87-102: one iteration of the loop over items.
ValidateStep ==
    /\ pc = "validate"
    /\ idx <= Len(items)
    /\ LET c == items[idx]
           o == Outcome(c)
       IN  /\ entries' = IF o = "ok" THEN Append(entries, Entry(c)) ELSE entries
           /\ opened' = IF o = "falsy" THEN opened ELSE opened + 1
           /\ log' = IF o \in {"not_square", "mismatch", "unreadable"}
                       THEN Say(o, c.p.stem) ELSE log
    /\ idx' = idx + 1
    /\ UNCHANGED <<dirpath, isDir, tree, groups, gi, overwrite, outDir, fault, fs, fs0,
                   pc, base, items, stem, parsed>>

\* NoUsable without the `if not entries` return: an empty container is written
NoUsableWritesEmpty ==
    /\ pc = "validate"
    /\ idx > Len(items)
    /\ entries = <<>>
    /\ fs' = [fs EXCEPT ![base] = File(IcoBytes(entries))]
    /\ log' = Say("written", base)
    /\ pc' = "returned"
    /\ UNCHANGED <<dirpath, isDir, tree, groups, gi, overwrite, outDir, fault, fs0,
                   base, items, idx, entries, opened, stem, parsed>>

\* Lines 104-106: no entry survived.
NoUsable ==
    /\ pc = "validate"
    /\ idx > Len(items)
    /\ entries = <<>>
    /\ log' = Say("no_usable", base)
    /\ pc' = "returned"
    /\ UNCHANGED <<dirpath, isDir, tree, groups, gi, overwrite, outDir, fault, fs, fs0,
                   base, items, idx, entries, opened, stem, parsed>>

\* Lines 111-139: sort, serialize and write; the write succeeds.
WriteIco ==
    /\ pc = "validate"
    /\ idx > Len(items)
    /\ entries # <<>>
    /\ fault[base] = "ok"
    /\ entries' = SortedBySize(entries)
    /\ fs' = [fs EXCEPT ![base] = File(OpenWb(fs[base]) \o IcoBytes(entries'))]
    /\ log' = Say("written", base)
    /\ pc' = "returned"
    /\ UNCHANGED <<dirpath, isDir, tree, groups, gi, overwrite, outDir, fault, fs0,
                   base, items, idx, opened, stem, parsed>>

\* OpenFails with no try around the write: the error leaves the call
OpenFailsUncaught ==
    /\ pc = "validate"
    /\ idx > Len(items)
    /\ entries # <<>>
    /\ fault[base] = "open"
    /\ entries' = SortedBySize(entries)
    /\ pc' = "raised"
    /\ UNCHANGED <<dirpath, isDir, tree, groups, gi, overwrite, outDir, fault, fs, fs0,
                   base, items, idx, opened, log, stem, parsed>>

\* Lines 111-134, 140-141: ico_path.open('wb') raises; the file is untouched.
OpenFails ==
    /\ pc = "validate"
    /\ idx > Len(items)
    /\ entries # <<>>
    /\ fault[base] = "open"
    /\ entries' = SortedBySize(entries)
    /\ log' = Say("write_failed", base)
    /\ pc' = "returned"
    /\ UNCHANGED <<dirpath, isDir, tree, groups, gi, overwrite, outDir, fault, fs, fs0,
                   base, items, idx, opened, stem, parsed>>

\* Lines 111-137, 140-141: the file is opened (and so truncated) and a write
\* raises: some prefix of the bytes, cut between two f.write calls, is left.
WriteFails ==
    /\ pc = "validate"
    /\ idx > Len(items)
    /\ entries # <<>>
    /\ fault[base] = "write"
    /\ entries' = SortedBySize(entries)
    /\ \E cut \in {0, Len(Header(Len(entries))), FirstOffset(Len(entries))} :
          fs' = [fs EXCEPT ![base] =
                    File(OpenWb(fs[base]) \o SubSeq(IcoBytes(entries'), 1, cut))]
    /\ log' = Say("write_failed", base)
    /\ pc' = "returned"
    /\ UNCHANGED <<dirpath, isDir, tree, groups, gi, overwrite, outDir, fault, fs0,
                   base, items, idx, opened, stem, parsed>>

create_ico_for_group ==
    \/ MkdirRaises
    \/ SkipExisting
    \/ StartValidation
    \/ ValidateStep
    \/ NoUsable
    \/ WriteIco
    \/ OpenFails
    \/ WriteFails

---------------------------------------------------------------------------
(* Spec: one call create_ico_for_group(base, items, out_dir, overwrite) *)

\* a PNG file below the scan root: its directory (names below the root), its
\* stem, what Image.open reports for it, and its bytes
Png(dir, st, w, h, readable, data) ==
    [dir |-> dir, stem |-> st, isfile |-> TRUE, w |-> w, h |-> h,
     readable |-> readable, data |-> data]

\* the candidates a call is tried on: a file and its declared size
Candidates ==
    {
      \* a_16.png: 16x16
      [p |-> Png(<<<<97>>>>, <<97, 95, 49, 54>>, 16, 16, TRUE, <<137>>), s |-> 16],
      \* a-16.png: 16x16
      [p |-> Png(<<<<97>>>>, <<97, 45, 49, 54>>, 16, 16, TRUE, <<80, 78>>), s |-> 16],
      \* a_32.png: 30x30
      [p |-> Png(<<<<97>>>>, <<97, 95, 51, 50>>, 30, 30, TRUE, <<71>>), s |-> 32],
      \* a_48.png: 48x24
      [p |-> Png(<<<<97>>>>, <<97, 95, 52, 56>>, 48, 24, TRUE, <<13>>), s |-> 48],
      \* a_256.png: 256x256
      [p |-> Png(<<<<97>>>>, <<97, 95, 50, 53, 54>>, 256, 256, TRUE, <<10, 26, 10>>), s |-> 256],
      \* a_512.png: 512x512
      [p |-> Png(<<<<97>>>>, <<97, 95, 53, 49, 50>>, 512, 512, TRUE, <<26>>), s |-> 512],
      \* a_24.png: not an image
      [p |-> Png(<<<<97>>>>, <<97, 95, 50, 52>>, 1, 1, FALSE, <<>>), s |-> 24],
      \* a_0.png: 16x16
      [p |-> Png(<<<<97>>>>, <<97, 95, 48>>, 16, 16, TRUE, <<73>>), s |-> 0]
    }

RECURSIVE SeqsUpTo(_, _)
SeqsUpTo(S, n) ==
    IF n = 0 THEN {<<>>}
    ELSE LET shorter == SeqsUpTo(S, n - 1)
         IN  shorter \cup {Append(q, x) : q \in {r \in shorter : Len(r) = n - 1}, x \in S}

\* the group key of the call: "a"
BaseA == <<97>>

\* an .ico left by an earlier run
OldIco == File(IcoBytes(<<[size |-> 16, data |-> <<1, 2, 3, 4, 5>>]>>))

Faults == {"ok", "open", "write"}

Init ==
    /\ dirpath = <<>>
    /\ isDir = TRUE
    /\ tree = {}
    /\ groups = <<>>
    /\ gi = 0
    /\ overwrite \in BOOLEAN
    /\ outDir \in {"absent", "dir", "blocked"}
    /\ fault \in [{BaseA} -> Faults]
    /\ fs \in [{BaseA} -> IF outDir = "dir" THEN {NoFile, OldIco} ELSE {NoFile}]
    /\ fs0 = fs
    /\ pc = "call"
    /\ base = BaseA
    /\ items \in SeqsUpTo(Candidates, MaxItems)
    /\ idx = 0
    /\ entries = <<>>
    /\ opened = 0
    /\ log = <<>>
    /\ stem = <<>>
    /\ parsed = [kind |-> "pending", size |-> 0]

Next == create_ico_for_group

Spec == Init /\ [][Next]_vars


---------------------------------------------------------------------------
(* Reading a container back: the layout of the icon format, used by the    *)
(* properties below (offsets are 0-based, as in the format)                *)

RECURSIVE Sum(_)
Sum(s) == IF s = <<>> THEN 0 ELSE Head(s) + Sum(Tail(s))

\* the len bytes of s after the first from bytes
Slice(s, from, len) == [k \in 1..len |-> s[from + k]]

U8At(f, off) == f[off + 1]
U16At(f, off) == f[off + 1] + 256 * f[off + 2]
U32At(f, off) ==
    f[off + 1] + 256 * f[off + 2] + 65536 * f[off + 3] + 16777216 * f[off + 4]

ReadHeader(f) ==
    [reserved |-> U16At(f, 0), type |-> U16At(f, 2), count |-> U16At(f, 4)]

\* the i-th directory record, i = 0, 1, ...
ReadRecord(f, i) ==
    LET at == 6 + 16 * i
    IN  [widthByte |-> U8At(f, at), heightByte |-> U8At(f, at + 1),
         colorCount |-> U8At(f, at + 2), reserved |-> U8At(f, at + 3),
         planes |-> U16At(f, at + 4), bitCount |-> U16At(f, at + 6),
         dataSize |-> U32At(f, at + 8), dataOffset |-> U32At(f, at + 12)]

\* a width or height byte of 0 reads as 256, any other byte as itself
ReadSize(byte) == IF byte = 0 THEN 256 ELSE byte

ReadPayload(f, i) ==
    Slice(f, ReadRecord(f, i).dataOffset, ReadRecord(f, i).dataSize)

\* the container parses: the header and the directory fit in the file and
\* every payload range lies inside it
WellFormed(f) ==
    /\ Len(f) >= 6
    /\ Len(f) >= 6 + 16 * ReadHeader(f).count
    /\ \A i \in 0..(ReadHeader(f).count - 1) :
          ReadRecord(f, i).dataOffset + ReadRecord(f, i).dataSize <= Len(f)

\* the call has returned after writing its container
Written ==
    /\ pc = "returned"
    /\ log # <<>>
    /\ log[Len(log)] = [kind |-> "written", who |-> base]

\* the container of the current call
Ico == fs[base].bytes

\* as the claims put it: readable, and probed width = probed height =
\* declared size
Valid(c) == c.p.readable /\ c.p.w = c.p.h /\ c.p.h = c.s

ValidItems == SelectSeq(items, Valid)

\* how often x occurs in the sequence s
Count(s, x) == Cardinality({k \in 1..Len(s) : s[k] = x})

SameBag(s, t) ==
    /\ Len(s) = Len(t)
    /\ \A k \in 1..Len(s) : Count(s, s[k]) = Count(t, s[k])

---------------------------------------------------------------------------
(* Properties of one call *)

\* C1: a written container holds exactly one entry per candidate that is
\* readable with probed width = probed height = declared size, and none for
\* any other candidate; rejected candidates do not stop the loop and equal
\* sizes are not merged.
C1_ExactlyTheValidCandidates ==
    Written =>
        /\ WellFormed(Ico)
        /\ ReadHeader(Ico).count = Len(ValidItems)
        /\ SameBag(entries, [k \in 1..Len(ValidItems) |-> Entry(ValidItems[k])])
        /\ SameBag([k \in 1..ReadHeader(Ico).count |-> ReadPayload(Ico, k - 1)],
                   [k \in 1..Len(ValidItems) |-> ValidItems[k].p.data])

\* a mismatched candidate came first, and two valid candidates of one
\* declared size after it both got an entry
C1_Witness ==
    /\ Written
    /\ Len(items) = 3
    /\ ~Valid(items[1]) /\ items[1].s # 0 /\ items[1].p.readable
    /\ Valid(items[2]) /\ Valid(items[3])
    /\ items[2].s = items[3].s /\ items[2] # items[3]
    /\ ReadHeader(Ico).count = 2

\* C2 (as claimed): reading a written container back gives the number of
\* validated entries and, in order, each entry's declared size (0 read as
\* 256) and its payload, for every size validation accepts.
C2_RoundTrip ==
    Written =>
        /\ ReadHeader(Ico).count = Len(entries)
        /\ \A i \in 1..Len(entries) :
              /\ ReadSize(ReadRecord(Ico, i - 1).widthByte) = entries[i].size
              /\ ReadSize(ReadRecord(Ico, i - 1).heightByte) = entries[i].size
              /\ ReadRecord(Ico, i - 1).dataSize = Len(entries[i].data)
              /\ ReadPayload(Ico, i - 1) = entries[i].data

\* C3: header (0, 1, n); record i has dataSize = length of payload i and
\* dataOffset = 6 + 16 n + the lengths of the payloads before it; the
\* payloads follow the directory in directory order and end at the end of
\* the file.
C3_Layout ==
    Written =>
        LET n == Len(entries)
            lens == [k \in 1..n |-> Len(entries[k].data)]
        IN  /\ ReadHeader(Ico) = [reserved |-> 0, type |-> 1, count |-> n]
            /\ \A i \in 1..n :
                  /\ ReadRecord(Ico, i - 1).dataSize = lens[i]
                  /\ ReadRecord(Ico, i - 1).dataOffset
                        = 6 + 16 * n + Sum(SubSeq(lens, 1, i - 1))
                  /\ ReadPayload(Ico, i - 1) = entries[i].data
                  /\ i < n => ReadRecord(Ico, i - 1).dataOffset + lens[i]
                                 = ReadRecord(Ico, i).dataOffset
            /\ Len(Ico) = 6 + 16 * n + Sum(lens)
            /\ SubSeq(Ico, 6 + 16 * n + 1, Len(Ico))
                  = Concat([k \in 1..n |-> entries[k].data])

\* three entries with payloads of different lengths were written
C3_Witness ==
    /\ Written
    /\ Len(entries) = 3
    /\ Len(entries[1].data) # Len(entries[2].data)
    /\ ReadRecord(Ico, 2).dataOffset > ReadRecord(Ico, 1).dataOffset + 1

\* the sizes declared by the valid candidates, in candidate order
ValidOfSize(s) == SelectSeq(ValidItems, LAMBDA c : c.s = s)

\* C4: the entries of a written container are in non-decreasing order of
\* declared size, and entries of one size keep the order of their
\* candidates.
C4_SortedStable ==
    Written =>
        /\ \A i \in 1..(Len(entries) - 1) : entries[i].size <= entries[i + 1].size
        /\ \A i \in 1..Len(entries) : ReadPayload(Ico, i - 1) = entries[i].data
        /\ \A s \in {entries[k].size : k \in 1..Len(entries)} :
              SelectSeq(entries, LAMBDA e : e.size = s)
                 = [k \in 1..Len(ValidOfSize(s)) |-> Entry(ValidOfSize(s)[k])]

\* a larger entry came first in the list and two different entries of one
\* size after it
C4_Witness ==
    /\ Written
    /\ Len(items) = 3 /\ Len(entries) = 3
    /\ items[1].s > items[2].s
    /\ items[2].s = items[3].s /\ items[2].p.data # items[3].p.data

\* the call went past the existence check
Validated == pc \in {"validate", "returned"} /\ (log = <<>> \/ log[1].kind # "exists_skip")

\* C5: when no candidate passes validation (or the list is empty) the call
\* never creates, truncates or modifies a file, and, having validated, it
\* returns reporting "no usable entries".
C5_NoUsableEntries ==
    (ValidItems = <<>>) =>
        /\ fs = fs0
        /\ (pc = "returned" /\ Validated) =>
              log[Len(log)] = [kind |-> "no_usable", who |-> base]

\* a call on failing candidates only returned, with no file before it
C5_Witness ==
    /\ pc = "returned"
    /\ Len(items) = 3 /\ ValidItems = <<>>
    /\ fs0[base] = NoFile /\ fs[base] = NoFile
    /\ log[Len(log)].kind = "no_usable"

\* C6: a call that finds its output and has overwrite off is a no-op: it
\* reports the skip only, changes no file and opens no candidate.
C6_SkipIsNoOp ==
    (fs0[base].exists /\ ~overwrite /\ pc # "call") =>
        /\ pc = "returned"
        /\ fs = fs0
        /\ opened = 0
        /\ entries = <<>>
        /\ log = <<[kind |-> "exists_skip", who |-> base]>>

\* a call with valid candidates was skipped
C6_Witness ==
    /\ pc = "returned"
    /\ fs0[base].exists /\ ~overwrite
    /\ ValidItems # <<>>
    /\ fs[base] = OldIco

\* what a run on an empty output directory leaves at the output path
FreshRun(its) ==
    LET valid == SelectSeq(its, Valid)
    IN  IF valid = <<>> THEN NoFile
        ELSE File(IcoBytes(SortedBySize([k \in 1..Len(valid) |-> Entry(valid[k])])))

\* C7 (as claimed): with the output present and overwrite on, the call
\* leaves at the output path what a fresh run on the same list leaves, for
\* every list.
C7_OverwriteEqualsFresh ==
    (pc = "returned" /\ fs0[base].exists /\ overwrite /\ fault[base] = "ok")
        => fs[base] = FreshRun(items)

\* C7 (amended): with the output present, overwrite on and a write that
\* succeeds, a list with a valid candidate leaves exactly the bytes of a
\* fresh run (which are also what a run without the file leaves), and a list
\* with none leaves the existing file as it was.
C7_OverwriteAmended ==
    (pc = "returned" /\ fault[base] = "ok" /\ (fs0[base] = NoFile \/ overwrite)) =>
        IF ValidItems # <<>>
        THEN fs[base] = FreshRun(items)
        ELSE fs[base] = fs0[base]

\* an existing container was replaced by a different one
C7_Witness ==
    /\ Written
    /\ fs0[base] = OldIco /\ overwrite
    /\ fs[base] # OldIco
    /\ Len(items) = 3 /\ Len(ValidItems) = 2


---------------------------------------------------------------------------
(* ParseSpec: lines 54-62 of group_pngs on one stem *)

\* the characters stems are made of: a _ @ 0 1 and the newline
StemChars == {97, 95, 64, 48, 49, 10}

Stems == SeqsUpTo(StemChars, MaxStem)

ParseInit ==
    /\ dirpath = <<>>
    /\ isDir = TRUE
    /\ tree = {}
    /\ groups = <<>>
    /\ gi = 0
    /\ overwrite = FALSE
    /\ outDir = "absent"
    /\ fault = <<>>
    /\ fs = <<>>
    /\ fs0 = <<>>
    /\ pc = "parse"
    /\ base = <<>>
    /\ items = <<>>
    /\ idx = 0
    /\ entries = <<>>
    /\ opened = 0
    /\ log = <<>>
    /\ stem \in Stems
    /\ parsed = [kind |-> "pending", size |-> 0]

ParseOne ==
    /\ pc = "parse"
    /\ parsed' = ParseStem(stem)
    /\ pc' = "parsed"
    /\ UNCHANGED <<dirpath, isDir, tree, groups, gi, overwrite, outDir, fault, fs, fs0,
                   base, items, idx, entries, opened, log, stem>>

ParseNext == ParseOne

ParseSpec == ParseInit /\ [][ParseNext]_vars

\* the digits a stem ends in (none: the empty sequence)
RECURSIVE TrailingDigits(_)
TrailingDigits(st) ==
    IF st = <<>> \/ ~(st[Len(st)] \in 48..57) THEN <<>>
    ELSE Append(TrailingDigits(SubSeq(st, 1, Len(st) - 1)), st[Len(st)])

RECURSIVE Decimal(_, _)
Decimal(ds, acc) ==
    IF ds = <<>> THEN acc ELSE Decimal(Tail(ds), 10 * acc + (Head(ds) - 48))

\* C8 (as claimed): a stem yields a candidate exactly when it ends in a
\* digit run of positive value n, its declared size is then n, and so every
\* candidate has a declared size above 0.
C8_PositiveTrailingRun ==
    pc = "parsed" =>
        LET run == TrailingDigits(stem)
            n == Decimal(run, 0)
        IN  /\ parsed.kind = "candidate" <=> (run # <<>> /\ n > 0)
            /\ parsed.kind = "candidate" => (parsed.size = n /\ parsed.size > 0)

\* what holds instead: a newline-free stem yields a candidate exactly when it
\* ends in a digit run, of any value, zero included, and the declared size
\* is the value of the whole run
C8_AnyTrailingRun ==
    (pc = "parsed" /\ \A k \in 1..Len(stem) : stem[k] # 10) =>
        LET run == TrailingDigits(stem)
        IN  /\ parsed.kind = "candidate" <=> run # <<>>
            /\ parsed.kind = "candidate" => parsed.size = Decimal(run, 0)


---------------------------------------------------------------------------
(* main *)

\* Lines 148-149: the scan root is no directory.
NoScanRoot ==
    /\ pc = "main"
    /\ ~isDir
    /\ pc' = "raised"
    /\ UNCHANGED <<dirpath, isDir, tree, groups, gi, overwrite, outDir, fault,
                   fs, fs0, base, items, idx, entries, opened, log, stem, parsed>>

\* Lines 151-154: the scan finds no group.
ScanEmpty ==
    /\ pc = "main"
    /\ isDir
    /\ group_pngs(dirpath, tree) = <<>>
    /\ groups' = <<>>
    /\ log' = Say("no_png", <<>>)
    /\ pc' = "exit"
    /\ UNCHANGED <<dirpath, isDir, tree, gi, overwrite, outDir, fault,
                   fs, fs0, base, items, idx, entries, opened, stem, parsed>>

\* Lines 151-156: the scan finds groups.
ScanGroups ==
    /\ pc = "main"
    /\ isDir
    /\ group_pngs(dirpath, tree) # <<>>
    /\ groups' = group_pngs(dirpath, tree)
    /\ gi' = 0
    /\ pc' = "loop"
    /\ UNCHANGED <<dirpath, isDir, tree, overwrite, outDir, fault,
                   fs, fs0, base, items, idx, entries, opened, log, stem, parsed>>

\* Lines 156-157: the next group is handed to create_ico_for_group.
NextGroup ==
    /\ pc \in {"loop", "returned"}
    /\ gi < Len(groups)
    /\ gi' = gi + 1
    /\ base' = groups[gi + 1].base
    /\ items' = groups[gi + 1].items
    /\ pc' = "call"
    /\ UNCHANGED <<dirpath, isDir, tree, groups, overwrite, outDir, fault,
                   fs, fs0, idx, entries, opened, log, stem, parsed>>

\* Line 159: all groups are done.
Finish ==
    /\ pc \in {"loop", "returned"}
    /\ gi = Len(groups)
    /\ log' = Say("done", <<>>)
    /\ pc' = "exit"
    /\ UNCHANGED <<dirpath, isDir, tree, groups, gi, overwrite, outDir, fault,
                   fs, fs0, base, items, idx, entries, opened, stem, parsed>>

main ==
    \/ NoScanRoot
    \/ ScanEmpty
    \/ ScanGroups
    \/ NextGroup
    \/ Finish

---------------------------------------------------------------------------
(* MainSpec: a run of main on a tree of PNG paths *)

\* the paths rglob('*.png') may find below the scan root
FilePool ==
    {
      \* x_16.png: 16x16
      Png(<<>>, <<120, 95, 49, 54>>, 16, 16, TRUE, <<137>>),
      \* a/x_16.png: 16x16
      Png(<<<<97>>>>, <<120, 95, 49, 54>>, 16, 16, TRUE, <<80, 78>>),
      \* a/x-32.png: 30x30
      Png(<<<<97>>>>, <<120, 45, 51, 50>>, 30, 30, TRUE, <<71>>),
      \* b/y16.png: 16x16
      Png(<<<<98>>>>, <<121, 49, 54>>, 16, 16, TRUE, <<13, 10>>),
      \* b/y_0.png: 16x16
      Png(<<<<98>>>>, <<121, 95, 48>>, 16, 16, TRUE, <<26>>),
      \* b/a/z@256.png: 256x256
      Png(<<<<98>>, <<97>>>>, <<122, 64, 50, 53, 54>>, 256, 256, TRUE, <<10, 26, 10>>),
      \* a/x.png: 16x16, no size in the name
      Png(<<<<97>>>>, <<120>>, 16, 16, TRUE, <<73>>),
      \* a/d_48.png: a directory
      [Png(<<<<97>>>>, <<100, 95, 52, 56>>, 1, 1, FALSE, <<>>) EXCEPT !.isfile = FALSE]
    }

\* the scan roots: "/" and "/r"
ScanRoots == {<<>>, <<<<114>>>>}

\* the group keys a scan of root can produce
KeysOf(root) == {FolderName(root, f) : f \in FilePool}

\* the output paths a run on files can touch; the faults and the files left
\* by earlier runs are chosen for these paths only
TouchedKeys(root, files) == {FolderName(root, f) : f \in files}

MainInit ==
    /\ dirpath \in ScanRoots
    /\ isDir \in BOOLEAN
    /\ tree \in {fl \in SUBSET FilePool : Cardinality(fl) <= MaxFiles /\ (~isDir => fl = {})}
    /\ groups = <<>>
    /\ gi = 0
    /\ overwrite \in BOOLEAN
    /\ outDir \in {"absent", "dir", "blocked"}
    /\ fault \in {ft \in [KeysOf(dirpath) -> Faults] :
                    \A k \in KeysOf(dirpath) \ TouchedKeys(dirpath, tree) : ft[k] = "ok"}
    /\ fs \in {fl \in [KeysOf(dirpath) -> IF outDir = "dir" THEN {NoFile, OldIco} ELSE {NoFile}] :
                    \A k \in KeysOf(dirpath) \ TouchedKeys(dirpath, tree) : fl[k] = NoFile}
    /\ fs0 = fs
    /\ pc = "main"
    /\ base = <<>>
    /\ items = <<>>
    /\ idx = 0
    /\ entries = <<>>
    /\ opened = 0
    /\ log = <<>>
    /\ stem = <<>>
    /\ parsed = [kind |-> "pending", size |-> 0]

MainNext == main \/ create_ico_for_group

MainSpec == MainInit /\ [][MainNext]_vars

\* the steps of the loop of lines 156-159 and of the calls it makes
LoopStep == NextGroup \/ Finish \/ create_ico_for_group

\* the program runs on: once the groups are scanned, a step of the loop that
\* can be taken is taken (the process is sequential and nothing blocks)
FairMainSpec == MainSpec /\ WF_vars(LoopStep)


---------------------------------------------------------------------------
(* Properties of a run of main *)

\* the scan has been made
Scanned == isDir /\ pc # "main"

\* a file group_pngs makes a candidate of
SizeTagged(f) == f.isfile /\ ParseStem(f.stem).kind = "candidate"

\* the places (group, position) where file f is a candidate
PlacesOf(f) ==
    {<<g, k>> \in (1..Len(groups)) \X (1..MaxFiles + 1) :
        k <= Len(groups[g].items) /\ groups[g].items[k].p = f}

\* the groups have different keys, no group is empty, every candidate is a
\* size-tagged file of the tree, and each group is in path order
GroupsShape ==
    /\ \A g, h \in 1..Len(groups) : groups[g].base = groups[h].base => g = h
    /\ \A g \in 1..Len(groups) :
          /\ groups[g].items # <<>>
          /\ \A k \in 1..Len(groups[g].items) :
                /\ groups[g].items[k].p \in tree
                /\ SizeTagged(groups[g].items[k].p)
          /\ \A k, m \in 1..Len(groups[g].items) :
                k < m => PathLess(groups[g].items[k].p, groups[g].items[m].p)

\* C10 (as claimed): every size-tagged file is one candidate of the group
\* named after its immediate directory, a file directly in the scan root
\* being in group "."; groups are in path order and no files are merged.
C10_KeyWithRootSentinel ==
    Scanned =>
        /\ GroupsShape
        /\ \A f \in tree : SizeTagged(f) =>
              /\ Cardinality(PlacesOf(f)) = 1
              /\ \A pl \in PlacesOf(f) :
                    groups[pl[1]].base
                       = IF f.dir = <<>> THEN Dot ELSE f.dir[Len(f.dir)]

\* C10 (amended): the key is the name of the immediate directory also for a
\* file directly in the scan root, whose key is the name of the scan root;
\* "." is the key only when that directory has no name (the scan root is the
\* filesystem root).
C10_KeyIsParentName ==
    Scanned =>
        /\ GroupsShape
        /\ \A f \in tree : SizeTagged(f) =>
              /\ Cardinality(PlacesOf(f)) = 1
              /\ \A pl \in PlacesOf(f) :
                    LET full == dirpath \o f.dir
                    IN  groups[pl[1]].base
                           = IF full = <<>> THEN Dot ELSE full[Len(full)]

\* a scan of "/r" put a file directly in it in group "r", and two files of
\* directories named "a" in one group
C10_Witness ==
    /\ Scanned
    /\ dirpath = <<<<114>>>>
    /\ \E g, h \in 1..Len(groups) :
          /\ groups[g].base = <<114>>
          /\ groups[g].items[1].p.dir = <<>>
          /\ groups[h].base = <<97>>
          /\ Len(groups[h].items) = 2
          /\ groups[h].items[1].p.dir # groups[h].items[2].p.dir

\* the call for the current group has just returned having failed: no usable
\* entry, or an I/O error opening or writing the container
GroupFailed ==
    IF pc = "returned" /\ log # <<>>
    THEN log[Len(log)].kind \in {"no_usable", "write_failed"}
    ELSE FALSE

\* group j has a valid candidate
Survives(j) == \E k \in 1..Len(groups[j].items) : Valid(groups[j].items[k])

\* the output of group j can be written: no I/O fault on its path, and no
\* file of an earlier run there unless overwrite is on
Writable(j) ==
    /\ outDir # "blocked"
    /\ fault[groups[j].base] = "ok"
    /\ ~fs0[groups[j].base].exists \/ overwrite

Reported(j, kinds) ==
    \E k \in 1..Len(log) : log[k].who = groups[j].base /\ log[k].kind \in kinds

\* the container of group j is on disk, and reported
GroupWritten(j) ==
    /\ fs[groups[j].base] = FreshRun(groups[j].items)
    /\ Reported(j, {"written"})

\* the run has ended normally, with a report about every group, and every
\* group after a failed one that has a valid candidate and a writable output
\* has its container written
CompletedPastFailures ==
    IF pc = "exit" /\ log # <<>>
    THEN /\ log[Len(log)].kind = "done"
         /\ \A j \in 1..Len(groups) :
               Reported(j, {"exists_skip", "no_usable", "write_failed", "written"})
         /\ \A i, j \in 1..Len(groups) :
               (i < j /\ Reported(i, {"no_usable", "write_failed"})
                      /\ Survives(j) /\ Writable(j)) => GroupWritten(j)
    ELSE FALSE

\* C9: when the synthesis of a group fails, the failure is reported, the run
\* goes on to its end through every later group, and every later group with
\* a valid candidate and a writable output gets its container written.
C9_FailureDoesNotAbort == GroupFailed ~> CompletedPastFailures

\* a run ended in which a group had no usable entry, the next had an I/O
\* error, and the one after them was written
C9_Witness ==
    /\ pc = "exit"
    /\ Len(groups) = 3
    /\ Reported(1, {"no_usable"})
    /\ Reported(2, {"write_failed"})
    /\ GroupWritten(3)

===========================================================================
